---- MODULE Spec2Model ----
(***************************************************************************)
(* Position lifecycle and execution subsystem of the trading engine:       *)
(* the order lifecycle tracker (core/order_tracker.py), the position store *)
(* (core/position_manager.py) and the exit flows (live/exit_manager.py,    *)
(* live/order_watcher.py), for one key (SYM, long) unless stated.          *)
(*                                                                         *)
(* Units: prices are integers in units of 0.01, quantities are integers in *)
(* units of one stepSize, times are integer seconds (int(time.time())).    *)
(***************************************************************************)
EXTENDS Integers, Sequences, FiniteSets, TLC

\* ---------------------------------------------------------------- bounds
MaxOrders == 2        \* full-exit orders recorded per record
MaxPositions == 2     \* local records created per behaviour (ghost ids 1..MaxPositions)
MaxTicks == 1         \* clock advances per behaviour in Spec and SpecScalper
MaxCalls == 3         \* tracker calls per worker in SpecTracker
MaxNow == 65          \* last clock value in SpecSync
MaxHalf == 6          \* largest quantity drawn in SpecTrim, in half steps

\* ---------------------------------------------------- program constants
BINANCE_MISSING_GRACE_SECONDS == 30
\* the configuration leaves scalper_settings at the defaults of the code:
\* min_sl_distance_pct = 0.0005 and fallback_sl_pct = 0.03, in 1/10000
MIN_SL_PCT_E4 == 5
FALLBACK_SL_PCT_E4 == 300
\* sync_with_binance reads min_sl_distance_pct with default 0.02 and rr 2
SYNC_MIN_SL_PCT_E4 == 200
RISK_REWARD_RATIO == 2
\* no config/symbol_precision.json: DEFAULT_MIN_NOTIONAL / DEFAULT_STEP_SIZE
\* = 1e-6 / 1e-8 = 100 steps per unit of price, for prices in 0.01
MIN_NOTIONAL_STEPS_E2 == 10000

None == -1            \* a numeric field that is absent / None

Workers == {"exit_loop", "order_monitor", "scalper"}
Directions == {"long", "short"}
\* key = f"{symbol}_{direction}" and marker_key = f"{key}_synced_incomplete"
Key(d) == IF d = "long" THEN "SYM_long" ELSE "SYM_short"
MarkerKey(d) == IF d = "long" THEN "SYM_long_synced_incomplete" ELSE "SYM_short_synced_incomplete"
Keys == {Key(d) : d \in Directions} \cup {MarkerKey(d) : d \in Directions}
KEY == Key("long")

VARIABLES
  ORDER_TRACKER,   \* tracker state of the key: "NONE" (no entry) or a state name
  TRACKER_LOCK,    \* holder of _TRACKER_LOCK, or "free"
  positions,       \* position_manager.positions: Keys -> record, NoPos when absent
  exAmt,           \* exchange: positionAmt of (SYM, long), in steps
  orders,          \* per worker: quantity of its market order resting at the exchange, 0 if none
  sent,            \* ghost: full-exit orders accepted by the exchange, per record id
  lifecycle,       \* ghost: full-exit rows appended to trade_lifecycle.csv, per record id
  now,             \* int(time.time())
  pc,              \* per worker: position in its handler
  loc,             \* per worker: local variables of its handler
  exitOwner,       \* ghost: worker whose mark_exit_pending returned True last, "none" after clear
  nextId,          \* ghost: id given to the next record stored under KEY
  ticks,           \* ghost: clock advances so far
  calls,           \* SpecTracker: per worker, calls made
  results,         \* SpecTracker: return values of mark_exit_pending since the last clear
  peak_price,      \* SpecPeak: pos["peak_price"] of the record under KEY, None if it has none
  calc,            \* SpecTrim: the partial-TP size computation in progress
  positions_file   \* SpecStore: positions.json on disk

vars == <<ORDER_TRACKER, TRACKER_LOCK, positions, exAmt, orders, sent, lifecycle, now,
          pc, loc, exitOwner, nextId, ticks, calls, results, peak_price, calc, positions_file>>

NoPos == [absent |-> TRUE]

Max(a, b) == IF a >= b THEN a ELSE b
Min(a, b) == IF a <= b THEN a ELSE b
Abs(a) == IF a >= 0 THEN a ELSE -a


\* ------------------------------------------------------- position records
\* Every record carries every field; a field the Python dict lacks is None
\* (numbers) or FALSE (flags), which is what pos.get(k) / pos.get(k, False) read.
BlankPos ==
  [id |-> 0, direction |-> "long", entry_price |-> None, size |-> None,
   stop_loss |-> None, take_profit |-> None,
   partial_tp_price |-> None, partial_tp_size |-> None, partial_tp_done |-> FALSE,
   tp1_triggered |-> FALSE, awaiting_trail_activation |-> FALSE,
   trail_active |-> FALSE, breakeven |-> FALSE,
   binance_missing_since |-> 0, last_partial_order_id |-> None, marker |-> FALSE]

\* dict.update(patch): the fields of patch replace those of pos
Merge(pos, patch) ==
  [f \in DOMAIN pos |-> IF f \in DOMAIN patch THEN patch[f] ELSE pos[f]]

\* the "..._synced_incomplete" marker written by add_position / update_position
MarkerRec(d, raw) == [Merge(BlankPos, raw) EXCEPT !.marker = TRUE, !.direction = d]

IsPos(p) == p # NoPos

\* PositionManager.is_position_sane
is_position_sane(pos) ==
  IF pos = NoPos THEN FALSE
  ELSE
  LET entry == pos.entry_price
      sl == pos.stop_loss
      tp == pos.take_profit
      size == pos.size
      allow_breakeven == pos.tp1_triggered \/ pos.awaiting_trail_activation \/ pos.breakeven
      \* (entry - sl) < abs(entry) * min_sl_pct, without the division
      tooClose(dist) == dist * 10000 < Abs(entry) * MIN_SL_PCT_E4
  IN IF entry = None \/ size = None THEN FALSE
     ELSE IF entry <= 0 \/ size <= 0 THEN FALSE
     ELSE IF pos.direction = "long"
       THEN IF sl # None /\ tp # None /\ sl < entry /\ entry < tp
              THEN ~tooClose(entry - sl)
              ELSE allow_breakeven /\ sl # None /\ sl = entry /\ (tp = None \/ entry < tp)
       ELSE IF sl # None /\ tp # None /\ sl > entry /\ entry > tp
              THEN ~tooClose(sl - entry)
              ELSE allow_breakeven /\ sl # None /\ sl = entry /\ (tp = None \/ entry > tp)

\* a variant persisting the stop loss as given
add_positionAsGiven(store, d, data, newId) ==
  [store EXCEPT ![Key(d)] = [Merge(BlankPos, data) EXCEPT !.id = newId, !.direction = d]]

\* add_position: the whole store after the call
add_position(store, d, data, newId) ==
  LET entry == IF "entry_price" \in DOMAIN data THEN data.entry_price ELSE None
      size == IF "size" \in DOMAIN data THEN data.size ELSE 0
      sl == IF "stop_loss" \in DOMAIN data THEN data.stop_loss ELSE None
      desired_abs == Max((Abs(entry) * MIN_SL_PCT_E4) \div 10000,
                         (Abs(entry) * FALLBACK_SL_PCT_E4) \div 10000)
      new_sl == IF sl = None THEN sl
                ELSE IF d = "long"
                  THEN (IF entry - sl < desired_abs THEN Max(entry - desired_abs, 0) ELSE sl)
                  ELSE (IF sl - entry < desired_abs THEN entry + desired_abs ELSE sl)
  IN IF entry = None \/ entry <= 0 \/ size = None \/ size <= 0
       THEN [store EXCEPT ![MarkerKey(d)] = MarkerRec(d, data)]
       ELSE [store EXCEPT ![Key(d)] =
               [Merge(BlankPos, data) EXCEPT !.id = newId, !.direction = d, !.stop_loss = new_sl]]

\* update_position: the whole store after the call
update_position(store, d, updates, newId) ==
  LET key == Key(d)
      entry == IF "entry_price" \in DOMAIN updates THEN updates.entry_price ELSE None
      size == IF "size" \in DOMAIN updates THEN updates.size ELSE 0
  IN IF store[key] # NoPos
       THEN [store EXCEPT ![key] = Merge(store[key], updates)]
       ELSE IF entry = None \/ entry <= 0 \/ size = None \/ size <= 0
         THEN [store EXCEPT ![MarkerKey(d)] = MarkerRec(d, updates)]
         ELSE [store EXCEPT ![key] =
                 [Merge(BlankPos, updates) EXCEPT !.id = newId, !.direction = d]]

\* close_position / remove_position: pop the key
close_positionKeep(store, d) == store

close_position(store, d) == [store EXCEPT ![Key(d)] = NoPos]


\* exit_manager._pos_is_sane: the exit controller's own gate (no breakeven case)
pos_is_sane(pos) ==
  IF pos = NoPos THEN FALSE
  ELSE
  LET entry == pos.entry_price
      sl == pos.stop_loss
      tp == pos.take_profit
      size == pos.size
  IN IF entry = None \/ sl = None \/ tp = None \/ size = None THEN FALSE
     ELSE IF entry <= 0 \/ size <= 0 THEN FALSE
     ELSE IF pos.direction = "long"
       THEN sl < entry /\ entry < tp /\ ~((entry - sl) * 10000 < Abs(entry) * MIN_SL_PCT_E4)
     ELSE IF pos.direction = "short"
       THEN sl > entry /\ entry > tp /\ ~((sl - entry) * 10000 < Abs(entry) * MIN_SL_PCT_E4)
     ELSE FALSE

\* symbol_precision.get_trimmed_quantity on quantities given in half steps:
\* floor to whole steps, and one step (the minimum) when the floor is zero
TrimHalfSteps(halfSteps) ==
  IF halfSteps <= 0 THEN 0
  ELSE IF halfSteps \div 2 >= 1 THEN halfSteps \div 2
  ELSE 1

\* ------------------------------------------------------------ initial state
\* locals of a handler: the id of the record object it holds (pos), the size
\* that object had when it left the store, the order quantity it computed,
\* the executedQty of the order response, the exchange amount a sync fetched,
\* now_ts and missing_since of a sync pass that found the exchange position
\* absent, the tracker state mark_exit_pending read, the peak_price and the
\* price order_monitor read, the outcome of execute_trade's preflight checks,
\* the text json.dump has produced in the file object's buffer, whether the
\* exchange query of the sync pass raised
LocInit == [pid |-> 0, osize |-> 0, qty |-> 0, resp |-> None, seen |-> 0,
            now_ts |-> 0, missing_since |-> 0, state |-> "NONE",
            peak |-> None, price |-> None, verdict |-> "none",
            buf |-> [k \in Keys |-> NoPos], fetch_failed |-> FALSE]

\* save_positions completed on `store`: the file holds its serialization; n
\* stands for the file's length (one unit per entry)
FileOf(store) ==
  [state |-> "ok", data |-> store, n |-> Cardinality({k \in Keys : store[k] # NoPos})]

\* no size computation in progress
CalcIdle == [phase |-> "idle"]

Ids == 1..MaxPositions


InitCommon ==
  /\ ORDER_TRACKER = "NONE"
  /\ TRACKER_LOCK = "free"
  /\ exAmt = 0
  /\ orders = [w \in Workers |-> 0]
  /\ sent = [i \in Ids |-> 0]
  /\ lifecycle = [i \in Ids |-> 0]
  /\ now = 1
  /\ pc = [w \in Workers |-> "idle"]
  /\ loc = [w \in Workers |-> LocInit]
  /\ exitOwner = "none"
  /\ nextId = 1
  /\ ticks = 0
  /\ calls = [w \in Workers |-> 0]
  /\ results = [t |-> 0, f |-> 0]
  /\ peak_price = None
  /\ positions_file = FileOf([k \in Keys |-> NoPos])

\* ------------------------------------------- order tracker, lock by lock
\* `with _TRACKER_LOCK:` is entered only when no other thread holds the lock
LockFreeRacy(lock) == TRUE

LockFree(lock) == lock = "free"

\* a worker calls mark_exit_pending(SYM, long)
CallMarkExitPending(w) ==
  /\ pc[w] = "idle" /\ calls[w] < MaxCalls
  /\ pc' = [pc EXCEPT ![w] = "mep_lock"]
  /\ calls' = [calls EXCEPT ![w] = @ + 1]
  /\ UNCHANGED <<ORDER_TRACKER, TRACKER_LOCK, positions, exAmt, orders, sent, lifecycle, now,
                 loc, exitOwner, nextId, ticks, results, peak_price, calc, positions_file>>

\* a worker calls clear(SYM, long)
CallClear(w) ==
  /\ pc[w] = "idle" /\ calls[w] < MaxCalls
  /\ pc' = [pc EXCEPT ![w] = "clr_lock"]
  /\ calls' = [calls EXCEPT ![w] = @ + 1]
  /\ UNCHANGED <<ORDER_TRACKER, TRACKER_LOCK, positions, exAmt, orders, sent, lifecycle, now,
                 loc, exitOwner, nextId, ticks, results, peak_price, calc, positions_file>>

\* order_tracker.py:33 and :53, entering the with block
AcquireTrackerLock(w) ==
  /\ pc[w] \in {"mep_lock", "clr_lock"}
  /\ LockFree(TRACKER_LOCK)
  /\ TRACKER_LOCK' = w
  /\ pc' = [pc EXCEPT ![w] = IF pc[w] = "mep_lock" THEN "mep_read" ELSE "clr_pop"]
  /\ UNCHANGED <<ORDER_TRACKER, positions, exAmt, orders, sent, lifecycle, now,
                 loc, exitOwner, nextId, ticks, calls, results, peak_price, calc, positions_file>>

\* order_tracker.py:35, state = _ORDER_TRACKER.get(key, {}).get("state")
MepReadState(w) ==
  /\ pc[w] = "mep_read"
  /\ loc' = [loc EXCEPT ![w].state = ORDER_TRACKER]
  /\ pc' = [pc EXCEPT ![w] = "mep_decide"]
  /\ UNCHANGED <<ORDER_TRACKER, TRACKER_LOCK, positions, exAmt, orders, sent, lifecycle, now,
                 exitOwner, nextId, ticks, calls, results, peak_price, calc, positions_file>>

\* order_tracker.py:36-43, return False, or write EXIT_PENDING and return True
MepDecide(w) ==
  /\ pc[w] = "mep_decide"
  /\ IF loc[w].state = "EXIT_PENDING"
       THEN /\ results' = [results EXCEPT !.f = @ + 1]
            /\ UNCHANGED <<ORDER_TRACKER, exitOwner>>
       ELSE /\ ORDER_TRACKER' = "EXIT_PENDING"
            /\ exitOwner' = w
            /\ results' = [results EXCEPT !.t = @ + 1]
  /\ TRACKER_LOCK' = "free"
  /\ pc' = [pc EXCEPT ![w] = "idle"]
  /\ UNCHANGED <<positions, exAmt, orders, sent, lifecycle, now, loc, nextId, ticks, calls, peak_price, calc, positions_file>>

\* order_tracker.py:54-55, _ORDER_TRACKER.pop(key, None)
ClearPop(w) ==
  /\ pc[w] = "clr_pop"
  /\ ORDER_TRACKER' = "NONE"
  /\ exitOwner' = "none"
  /\ results' = [t |-> 0, f |-> 0]
  /\ TRACKER_LOCK' = "free"
  /\ pc' = [pc EXCEPT ![w] = "idle"]
  /\ UNCHANGED <<positions, exAmt, orders, sent, lifecycle, now, loc, nextId, ticks, calls, peak_price, calc, positions_file>>

InitTracker == InitCommon /\ positions = [k \in Keys |-> NoPos] /\ calc = CalcIdle

NextTracker ==
  \E w \in Workers :
    \/ CallMarkExitPending(w)
    \/ CallClear(w)
    \/ AcquireTrackerLock(w)
    \/ MepReadState(w)
    \/ MepDecide(w)
    \/ ClearPop(w)

SpecTracker == InitTracker /\ [][NextTracker]_vars

\* C1: among the mark_exit_pending calls on the key that completed since the
\* last clear, exactly one returned True and every other one returned False.
C1_ExactlyOneAcquires ==
  /\ results.t <= 1
  /\ (results.t + results.f > 0 => results.t = 1)

\* three calls have completed after the last clear, one True and two False
C1_Witness == results.t = 1 /\ results.f = 2


\* ===================================================== the running system
\* Workers of runner.py on the key (SYM, long): the exit controller thread
\* (price_poll_exit_loop), the order monitor thread (order_monitor) and the
\* main thread (run_scalper), in live mode with API credentials.  Steps are
\* cut at exchange calls, file writes and lock acquisitions.

EntryPrice == 10000      \* fill price of an entry, 100.00
EntrySL == 9700          \* strategy stop loss, entry - 3%
EntryTP == 10600         \* strategy take profit, rr 2
EntryPTP == 10300        \* entry + risk * first_rr, first_rr = 1.0
EntrySizes == {1, 2}     \* entry quantities, in steps: the minimum and twice it
Prices == {9700, 10000, 10300, 10400}   \* values get_latest_price may return

trk == <<ORDER_TRACKER, exitOwner>>
aux == <<TRACKER_LOCK, calls, results, peak_price, calc, positions_file>>
ghost == <<sent, lifecycle>>

Present(store) == store[KEY] # NoPos
HasMarker(store) == \E k \in Keys : store[k] # NoPos /\ store[k].marker

\* is the record object the worker holds still the one in the store
Holds(w) == Present(positions) /\ positions[KEY].id = loc[w].pid

\* pos.get("size") on the object the worker holds: the stored record while it
\* is still that object, else the object as it was when it left the store
HeldSize(w) == IF Holds(w) THEN positions[KEY].size ELSE loc[w].osize

\* the key is popped: workers holding the object keep its last contents
Frozen(l, old) ==
  [x \in Workers |->
     IF old # NoPos /\ l[x].pid = old.id THEN [l[x] EXCEPT !.osize = old.size] ELSE l[x]]

\* the store changes from old to new: refresh the held objects when the key was popped
AfterStore(l, old, new) == IF Present(old) /\ ~Present(new) THEN Frozen(l, old[KEY]) ELSE l

Return(l, w) == [l EXCEPT ![w] = LocInit]

\* mark_exit_pending: True unless the state is EXIT_PENDING
MarkExitPendingAlways(state) == TRUE

MarkExitPendingOk(state) == state # "EXIT_PENDING"

\* exchange position once the worker's resting market order, if any, has executed
AmtAfterResting(w) == exAmt - Min(orders[w], exAmt)

\* futures_create_order for a reduce-only market order of qty: rejected when
\* there is nothing to reduce; else the response carries the quantity executed
\* so far, 0 for a plain acknowledgement.  None is _send_market_exit failing.
Responses(w, qty) ==
  IF AmtAfterResting(w) > 0 THEN {None, 0, Min(qty, AmtAfterResting(w))} ELSE {None}

\* exchange state after the create-order call answered r
PlaceOrder(w, qty, r) ==
  /\ orders' = [orders EXCEPT ![w] = IF r = 0 THEN qty ELSE 0]
  /\ exAmt' = IF r = None THEN AmtAfterResting(w) ELSE AmtAfterResting(w) - r

\* ------------------------------------------------------------ environment
\* execute_trade of the scalper cycle: market entry filled, record persisted
\* with the partial TP fields (scalper_runner.py:397-443)
Entry(size) ==
  /\ pc["scalper"] = "idle"
  /\ ~Present(positions) /\ exAmt = 0
  /\ nextId <= MaxPositions
  /\ exAmt' = size
  /\ positions' =
       update_position(
         add_position(positions, "long",
           [entry_price |-> EntryPrice, size |-> size,
            stop_loss |-> EntrySL, take_profit |-> EntryTP], nextId),
         "long",
         [partial_tp_price |-> EntryPTP, partial_tp_size |-> (size + 1) \div 2], nextId)
  /\ nextId' = nextId + 1
  /\ UNCHANGED <<trk, aux, ghost, orders, now, pc, loc, ticks>>

\* the exchange executes a resting market order; a worker polling the order
\* (check_partial_tp, futures_get_order) reads the executed quantity
ExchangeFill(w) ==
  /\ orders[w] > 0
  /\ orders' = [orders EXCEPT ![w] = 0]
  /\ exAmt' = AmtAfterResting(w)
  /\ loc' = IF pc[w] = "cpt_poll"
              THEN [loc EXCEPT ![w].resp = Min(orders[w], exAmt)] ELSE loc
  /\ UNCHANGED <<trk, aux, ghost, positions, now, pc, nextId, ticks>>

\* the exchange position disappears without an order of this program
\* (exchange-side stop, liquidation, manual close)
ExchangeClose ==
  /\ exAmt > 0
  /\ exAmt' = 0
  /\ UNCHANGED <<trk, aux, ghost, positions, orders, now, pc, loc, nextId, ticks>>

\* wall clock
Tick ==
  /\ ticks < MaxTicks
  /\ now' = now + BINANCE_MISSING_GRACE_SECONDS + 1
  /\ ticks' = ticks + 1
  /\ UNCHANGED <<trk, aux, ghost, positions, exAmt, orders, pc, loc, nextId>>

\* ------------------------------------------------------ sync_with_binance
\* position_manager.py:734-739, the exchange positions are fetched; a failed
\* fetch leaves binance_positions = [] (with no exchange position a failed
\* and an answered query give the same list)
SyncFetch(w) ==
  /\ w \in {"exit_loop", "scalper"}
  /\ pc[w] = "idle"
  /\ pc' = [pc EXCEPT ![w] = "sync"]
  /\ \E seen \in {exAmt, 0} :
       loc' = [loc EXCEPT ![w].seen = seen, ![w].fetch_failed = (seen # exAmt)]
  /\ UNCHANGED <<trk, aux, ghost, positions, exAmt, orders, now, nextId, ticks>>

\* the record sync_with_binance synthesizes for an exchange position (:777-795),
\* the exchange reporting the entry price of the fill
SyncedData(amt) ==
  [entry_price |-> EntryPrice, size |-> amt,
   stop_loss |-> EntryPrice - (EntryPrice * SYNC_MIN_SL_PCT_E4) \div 10000,
   take_profit |-> EntryPrice + (EntryPrice * SYNC_MIN_SL_PCT_E4 * RISK_REWARD_RATIO) \div 10000]

\* the grace test of sync_with_binance (:820)
GraceExpiredEarly(now_ts, missing_since) == now_ts - missing_since >= 0

GraceExpired(now_ts, missing_since) == now_ts - missing_since > BINANCE_MISSING_GRACE_SECONDS

\* position_manager.py:741-824 for the key, on the fetched exchange view:
\* the store after the pass
SyncStore(store, seen, now_ts, newId) ==
  LET added == IF seen > 0 /\ ~Present(store)
                 THEN add_position(store, "long", SyncedData(seen), newId) ELSE store
  IN IF Present(added) /\ seen = 0
       THEN IF added[KEY].binance_missing_since = 0
              THEN [added EXCEPT ![KEY].binance_missing_since = now_ts]
              ELSE IF GraceExpired(now_ts, added[KEY].binance_missing_since)
                     THEN close_position(added, "long")
                     ELSE added
       ELSE added

SyncApply(w) ==
  /\ pc[w] = "sync"
  /\ LET creates == loc[w].seen > 0 /\ ~Present(positions)
     IN /\ creates => nextId <= MaxPositions
        /\ positions' = SyncStore(positions, loc[w].seen, now, nextId)
        /\ nextId' = IF creates THEN nextId + 1 ELSE nextId
        /\ loc' = [AfterStore(loc, positions, positions') EXCEPT
                     ![w].seen = 0,
                     ![w].fetch_failed = FALSE,
                     ![w].now_ts = IF Present(positions) /\ loc[w].seen = 0 THEN now ELSE 0,
                     ![w].missing_since = IF Present(positions) /\ loc[w].seen = 0
                                            THEN positions[KEY].binance_missing_since ELSE 0]
  /\ pc' = [pc EXCEPT ![w] = IF w = "exit_loop" THEN "el_eval" ELSE "cpt"]
  /\ UNCHANGED <<trk, aux, ghost, exAmt, orders, now, ticks>>

\* ---------------------------------------------------------------- full_exit
\* exit_manager.py:224, _is_position_live_on_binance: the exchange is asked;
\* a failed request counts as live.  Not live (:225-242): binance_missing_since
\* is stamped on the stored record if unset, the notifier is called and
\* full_exit returns.
FeMissingStoreDrop(store, now_ts) == close_position(store, "long")

FeMissingStore(store, now_ts) ==
  IF Present(store) /\ store[KEY].binance_missing_since = 0
    THEN update_position(store, "long", [binance_missing_since |-> now_ts], 0)
    ELSE store

FeLive(w) ==
  /\ pc[w] = "fe_live"
  /\ \E live \in {exAmt > 0, TRUE} :
       IF live
         THEN /\ pc' = [pc EXCEPT ![w] = "fe_cas"]
              /\ UNCHANGED <<positions, loc>>
         ELSE /\ positions' = FeMissingStore(positions, now)
              /\ pc' = [pc EXCEPT ![w] = "fe_notify"]
              /\ UNCHANGED loc
  /\ UNCHANGED <<trk, aux, ghost, exAmt, orders, now, nextId, ticks>>

\* exit_manager.py:234-242, notifier.send_info and return
FeNotify(w) ==
  /\ pc[w] = "fe_notify"
  /\ pc' = [pc EXCEPT ![w] = "idle"]
  /\ loc' = Return(loc, w)
  /\ UNCHANGED <<trk, aux, ghost, positions, exAmt, orders, now, nextId, ticks>>

\* exit_manager.py:244-261: mark_exit_pending, then the record and its size are
\* read; a missing record returns, a size <= 0 closes the record and returns,
\* both with the tracker left at EXIT_PENDING
FeCas(w) ==
  /\ pc[w] = "fe_cas"
  /\ IF ~MarkExitPendingOk(ORDER_TRACKER)
       THEN /\ pc' = [pc EXCEPT ![w] = "idle"]
            /\ loc' = Return(loc, w)
            /\ UNCHANGED <<trk, positions>>
       ELSE /\ ORDER_TRACKER' = "EXIT_PENDING"
            /\ exitOwner' = w
            /\ IF ~Present(positions)
                 THEN /\ pc' = [pc EXCEPT ![w] = "idle"]
                      /\ loc' = Return(loc, w)
                      /\ UNCHANGED positions
                 ELSE IF positions[KEY].size <= 0
                   THEN /\ positions' = close_position(positions, "long")
                        /\ pc' = [pc EXCEPT ![w] = "idle"]
                        /\ loc' = Return(AfterStore(loc, positions, positions'), w)
                   ELSE /\ pc' = [pc EXCEPT ![w] = "fe_send"]
                        /\ loc' = [loc EXCEPT ![w].pid = positions[KEY].id,
                                              ![w].qty = positions[KEY].size]
                        /\ UNCHANGED positions
  /\ UNCHANGED <<aux, ghost, exAmt, orders, now, nextId, ticks>>

\* exit_manager.py:263-273, _send_market_exit.  A failed order call is
\* handled with logger.log_critical (:199-208) and a None response with
\* logger.log_critical (:265): the AttributeError of that call leaves
\* full_exit and ends the calling thread (see FeRecord)
FeSend(w) ==
  /\ pc[w] = "fe_send"
  /\ sent[loc[w].pid] < MaxOrders
  /\ \E r \in Responses(w, loc[w].qty) :
       /\ PlaceOrder(w, loc[w].qty, r)
       /\ IF r = None
            THEN /\ pc' = [pc EXCEPT ![w] = "dead"]
                 /\ loc' = Return(loc, w)
                 /\ UNCHANGED sent
            ELSE /\ pc' = [pc EXCEPT ![w] = "fe_record"]
                 /\ loc' = [loc EXCEPT ![w].resp = r]
                 /\ sent' = [sent EXCEPT ![loc[w].pid] = @ + 1]
  /\ UNCHANGED <<trk, aux, lifecycle, positions, now, nextId, ticks>>

\* trade_recorder._calc_equity indexes pos["size"] and pos["entry_price"] of
\* every entry of the store; a "..._synced_incomplete" entry has neither
snapshot_equity_raises(store) == HasMarker(store)

\* exit_manager.py:284-310: append_lifecycle, then snapshot_equity outside
\* any try block; its exception leaves full_exit and reaches the `except
\* Exception` of the calling loop (exit_manager.py:698-700 and :703-706,
\* order_watcher.py:89-90).  Each handler calls logger.log_critical, which
\* LoggerWrapper does not define and logging.Logger does not have
\* (logger.py:331-348): the AttributeError raised inside the handler leaves
\* the `while True` loop and the thread ends.
FeRecord(w) ==
  /\ pc[w] = "fe_record"
  /\ lifecycle' = [lifecycle EXCEPT ![loc[w].pid] = @ + 1]
  /\ IF snapshot_equity_raises(positions)
       THEN /\ pc' = [pc EXCEPT ![w] = "dead"]
            /\ loc' = Return(loc, w)
       ELSE /\ pc' = [pc EXCEPT ![w] = "fe_close"]
            /\ UNCHANGED loc
  /\ UNCHANGED <<trk, aux, sent, positions, exAmt, orders, now, nextId, ticks>>

\* exit_manager.py:321, position_manager.close_position
FeClose(w) ==
  /\ pc[w] = "fe_close"
  /\ positions' = close_position(positions, "long")
  /\ loc' = AfterStore(loc, positions, positions')
  /\ pc' = [pc EXCEPT ![w] = "fe_clear"]
  /\ UNCHANGED <<trk, aux, ghost, exAmt, orders, now, nextId, ticks>>

\* exit_manager.py:322, order_tracker.clear
FeClear(w) ==
  /\ pc[w] = "fe_clear"
  /\ ORDER_TRACKER' = "NONE"
  /\ exitOwner' = "none"
  /\ pc' = [pc EXCEPT ![w] = "idle"]
  /\ loc' = Return(loc, w)
  /\ UNCHANGED <<aux, ghost, positions, exAmt, orders, now, nextId, ticks>>

\* ------------------------------------------------- price_poll_exit_loop
\* exit_manager.py:568-643 for the key at the polled price: the sanity gate,
\* the stop loss test (full_exit), the TP1 test (handle_tp1 up to its exchange
\* call, :334-357) and the trail activation update.  Trailing (:645-695) needs
\* trail_active on a record that passes the gate.
ElEval(price) ==
  /\ pc["exit_loop"] = "el_eval"
  /\ LET w == "exit_loop"
         pos == positions[KEY]
         partial_tp == IF pos.partial_tp_price = None THEN pos.take_profit
                       ELSE pos.partial_tp_price
     IN IF ~Present(positions) \/ ~pos_is_sane(pos)
          THEN /\ pc' = [pc EXCEPT ![w] = "idle"]
               /\ loc' = Return(loc, w)
               /\ UNCHANGED positions
          ELSE IF ~pos.trail_active /\ price <= pos.stop_loss
            THEN /\ pc' = [pc EXCEPT ![w] = "fe_live"]
                 /\ loc' = Return(loc, w)
                 /\ UNCHANGED positions
          ELSE IF ~pos.tp1_triggered /\ price >= partial_tp
            THEN /\ pc' = [pc EXCEPT ![w] = "tp1_live"]
                 /\ loc' = [loc EXCEPT ![w] = [LocInit EXCEPT !.pid = pos.id,
                                                           !.qty = TrimHalfSteps(pos.size)]]
                 /\ UNCHANGED positions
          ELSE /\ pc' = [pc EXCEPT ![w] = "idle"]
               /\ positions' =
                    IF pos.awaiting_trail_activation /\ price * 1000 >= partial_tp * 1002
                      THEN update_position(positions, "long",
                             [awaiting_trail_activation |-> FALSE, trail_active |-> TRUE,
                              stop_loss |-> partial_tp], 0)
                      ELSE positions
               /\ loc' = Return(loc, w)
  /\ UNCHANGED <<trk, aux, ghost, exAmt, orders, now, nextId, ticks>>

\* ---------------------------------------------------------------- handle_tp1
\* exit_manager.py:470-484: not live stamps binance_missing_since on the held
\* object and calls update_position with it, whatever the store holds
Tp1Live(w) ==
  /\ pc[w] = "tp1_live"
  /\ \E live \in {exAmt > 0, TRUE} :
       IF live
         THEN /\ pc' = [pc EXCEPT ![w] = "tp1_send"]
              /\ UNCHANGED <<positions, loc>>
         ELSE /\ positions' = update_position(positions, "long",
                                 [binance_missing_since |-> now], 0)
              /\ pc' = [pc EXCEPT ![w] = "idle"]
              /\ loc' = Return(loc, w)
  /\ UNCHANGED <<trk, aux, ghost, exAmt, orders, now, nextId, ticks>>

\* exit_manager.py:486-502: the partial order is sent, no tracker involved;
\* executed_qty is the response's executedQty.  A failed order call reaches
\* logger.log_critical (:199-208, :488), whose AttributeError leaves
\* handle_tp1 and ends the calling thread (see FeRecord)
Tp1Send(w) ==
  /\ pc[w] = "tp1_send"
  /\ \E r \in Responses(w, loc[w].qty) :
       /\ PlaceOrder(w, loc[w].qty, r)
       /\ IF r = None
            THEN /\ pc' = [pc EXCEPT ![w] = "dead"]
                 /\ loc' = Return(loc, w)
            ELSE /\ pc' = [pc EXCEPT ![w] = "tp1_update"]
                 /\ loc' = [loc EXCEPT ![w].resp = r]
  /\ UNCHANGED <<trk, aux, ghost, positions, now, nextId, ticks>>

\* the patch handle_tp1 passes to update_position (:504-510)
Tp1Patch(current_size, executed_qty) ==
  [size |-> Max(0, current_size - executed_qty), tp1_triggered |-> TRUE,
   awaiting_trail_activation |-> TRUE, stop_loss |-> EntryPrice]

\* exit_manager.py:504-539: update_position, then the TP1_EXIT row
\* (append_lifecycle, :516-531; the file is never read back, so the row
\* is this step and no variable) and the equity snapshot, after which
\* handle_tp1 is over either way
Tp1Update(w) ==
  /\ pc[w] = "tp1_update"
  /\ positions' = update_position(positions, "long",
                                  Tp1Patch(HeldSize(w), loc[w].resp), 0)
  /\ pc' = [pc EXCEPT ![w] = "idle"]
  /\ loc' = Return(loc, w)
  /\ UNCHANGED <<trk, aux, ghost, exAmt, orders, now, nextId, ticks>>

\* ------------------------------------------------------------ order_monitor
\* order_watcher.py:21-87 at the polled price: entries lacking stop_loss or
\* take_profit keys (the markers) are removed; on a stop-loss hit, or with
\* trail_active on a hit of pos.get("trailing_sl", sl), full_exit is called
\* unless is_exit_pending.  No record of the model has a trailing_sl key (it
\* is written at exit_manager.py:689, behind the sanity gate), so the level
\* of the trailing test is the stop loss too.
OmEval(price) ==
  /\ pc["order_monitor"] = "idle"
  /\ LET w == "order_monitor"
         pos == positions[KEY]
         trail_sl == pos.stop_loss
     IN /\ positions' = [k \in Keys |->
                           IF positions[k] # NoPos /\ positions[k].marker
                             THEN NoPos ELSE positions[k]]
        /\ pc' = [pc EXCEPT ![w] =
                    IF /\ Present(positions) /\ pos.stop_loss # None
                       /\ \/ ~pos.trail_active /\ price <= pos.stop_loss
                          \/ pos.trail_active /\ price <= trail_sl
                       /\ ORDER_TRACKER # "EXIT_PENDING"
                      THEN "fe_live" ELSE "idle"]
  /\ UNCHANGED <<trk, aux, ghost, exAmt, orders, now, loc, nextId, ticks>>

\* ---------------------------------------------------------- check_partial_tp
\* position_manager.py:411-486 at the cycle's price, up to the order call
Cpt(price) ==
  /\ pc["scalper"] = "cpt"
  /\ LET w == "scalper"
         pos == positions[KEY]
     IN IF /\ Present(positions)
           /\ pos.partial_tp_price # None /\ pos.partial_tp_size # None
           /\ pos.entry_price # None /\ pos.take_profit # None /\ pos.size # None
           /\ pos.entry_price < pos.partial_tp_price
           /\ pos.partial_tp_price < pos.take_profit
           /\ ~pos.partial_tp_done /\ price >= pos.partial_tp_price
           /\ pos.partial_tp_size > 0
          THEN /\ pc' = [pc EXCEPT ![w] = "cpt_send"]
               /\ loc' = [loc EXCEPT ![w] = [LocInit EXCEPT !.pid = pos.id,
                                                         !.qty = pos.partial_tp_size]]
          ELSE /\ pc' = [pc EXCEPT ![w] = "idle"]
               /\ loc' = Return(loc, w)
  /\ UNCHANGED <<trk, aux, ghost, positions, exAmt, orders, now, nextId, ticks>>

\* position_manager.py:501, futures_create_order, no tracker involved; a
\* rejected order raises and check_partial_tp returns
CptSend(w) ==
  /\ pc[w] = "cpt_send"
  /\ \E r \in Responses(w, loc[w].qty) :
       /\ PlaceOrder(w, loc[w].qty, r)
       /\ IF r = None
            THEN /\ pc' = [pc EXCEPT ![w] = "idle"]
                 /\ loc' = Return(loc, w)
            ELSE /\ pc' = [pc EXCEPT ![w] = "cpt_poll"]
                 /\ loc' = [loc EXCEPT ![w].resp = r]
  /\ UNCHANGED <<trk, aux, ghost, positions, now, nextId, ticks>>

\* resp.get("orderId") of the partial order (:505).  Order ids are opaque to
\* the program; the model names the order after the record it was sent for.
order_id(w) == loc[w].pid

\* what check_partial_tp writes into the held record on a partial fill (:573-587)
CptPatch(oid, new_size) ==
  [last_partial_order_id |-> oid, size |-> new_size, partial_tp_done |-> TRUE,
   tp1_triggered |-> TRUE, stop_loss |-> EntryPrice, breakeven |-> TRUE]

\* what it writes before save_positions when nothing is left (:564-568)
CptClosePatch(oid) == [last_partial_order_id |-> oid, partial_tp_done |-> TRUE]

\* position_manager.py:504-590, the poll has ended: executed is what the
\* exchange reports for the order, 0 when the timeout came first.  Unfilled
\* (:537-548): best-effort cancel and return, the record is not touched.
\* Filled, nothing left (:561-569): the held record object is marked and the
\* store saved, close_position follows.  Filled, a remainder (:573-590): the
\* held record object is shrunk and moved to breakeven, and the store saved.
\* No branch appends a lifecycle row.
CptPoll(w) ==
  /\ pc[w] = "cpt_poll"
  /\ LET executed == loc[w].resp
         new_size == Max(0, HeldSize(w) - executed)
     IN IF executed <= 0
          THEN /\ \E cancelled \in BOOLEAN :
                    orders' = [orders EXCEPT ![w] = IF cancelled THEN 0 ELSE @]
               /\ loc' = Return(loc, w)
               /\ pc' = [pc EXCEPT ![w] = "idle"]
               /\ UNCHANGED positions
          ELSE /\ UNCHANGED orders
               /\ IF new_size <= 0
                    THEN /\ positions' =
                              IF Holds(w)
                                THEN [positions EXCEPT
                                        ![KEY] = Merge(@, CptClosePatch(order_id(w)))]
                                ELSE positions
                         /\ pc' = [pc EXCEPT ![w] = "cpt_close"]
                         /\ UNCHANGED loc
                    ELSE /\ positions' =
                              IF Holds(w)
                                THEN [positions EXCEPT
                                        ![KEY] = Merge(@, CptPatch(order_id(w), new_size))]
                                ELSE positions
                         /\ pc' = [pc EXCEPT ![w] = "idle"]
                         /\ loc' = Return(loc, w)
  /\ UNCHANGED <<trk, aux, ghost, exAmt, now, nextId, ticks>>

\* position_manager.py:570, close_position after the save
CptClose(w) ==
  /\ pc[w] = "cpt_close"
  /\ positions' = close_position(positions, "long")
  /\ loc' = Return(AfterStore(loc, positions, positions'), w)
  /\ pc' = [pc EXCEPT ![w] = "idle"]
  /\ UNCHANGED <<trk, aux, ghost, exAmt, orders, now, nextId, ticks>>

\* ------------------------------------------------------------------- system
Init == InitCommon /\ positions = [k \in Keys |-> NoPos] /\ calc = CalcIdle

\* the exit controller thread and the order monitor thread against the
\* exchange, the clock, and the entries made by the main thread
Next ==
  \/ \E size \in EntrySizes : Entry(size)
  \/ \E w \in Workers : ExchangeFill(w)
  \/ ExchangeClose
  \/ Tick
  \/ SyncFetch("exit_loop")
  \/ SyncApply("exit_loop")
  \/ \E price \in Prices : ElEval(price)
  \/ \E price \in Prices : OmEval(price)
  \/ \E w \in Workers : FeLive(w)
  \/ \E w \in Workers : FeNotify(w)
  \/ \E w \in Workers : FeCas(w)
  \/ \E w \in Workers : FeSend(w)
  \/ \E w \in Workers : FeRecord(w)
  \/ \E w \in Workers : FeClose(w)
  \/ \E w \in Workers : FeClear(w)
  \/ \E w \in Workers : Tp1Live(w)
  \/ \E w \in Workers : Tp1Send(w)
  \/ \E w \in Workers : Tp1Update(w)

Spec == Init /\ [][Next]_vars

\* the scalper cycle of the main thread (sync, partial TP check, entry)
\* against the exchange
NextScalper ==
  \/ \E size \in EntrySizes : Entry(size)
  \/ ExchangeFill("scalper")
  \/ ExchangeClose
  \/ Tick
  \/ SyncFetch("scalper")
  \/ SyncApply("scalper")
  \/ \E price \in Prices : Cpt(price)
  \/ CptSend("scalper")
  \/ CptPoll("scalper")
  \/ CptClose("scalper")

SpecScalper == Init /\ [][NextScalper]_vars

\* reconciliation alone: the exit controller's sync passes against the
\* exchange and a clock that advances in steps around the grace period
TickSteps == {1, 29, 31}

TickBy(d) ==
  /\ now + d <= MaxNow
  /\ now' = now + d
  /\ UNCHANGED <<trk, aux, ghost, positions, exAmt, orders, pc, loc, nextId, ticks>>

NextSync ==
  \/ \E size \in EntrySizes : Entry(size)
  \/ ExchangeClose
  \/ \E d \in TickSteps : TickBy(d)
  \/ SyncFetch("exit_loop")
  \/ SyncApply("exit_loop")
  \/ ElEval(EntryPrice)

SpecSync == Init /\ [][NextSync]_vars

\* ------------------------------------------------------------------ claims
\* a worker's create-order call was accepted by the exchange in this step
Submits(w) ==
  \/ pc[w] = "fe_send" /\ pc'[w] = "fe_record"
  \/ pc[w] = "tp1_send" /\ pc'[w] = "tp1_update"
  \/ pc[w] = "cpt_send" /\ pc'[w] = "cpt_poll"

\* C2: every exit order accepted by the exchange (full exit, TP1 handling,
\* partial-TP check) is sent by a worker whose mark_exit_pending on the key
\* returned True and has not been cleared since.
C2_SubmitterHoldsExitPending ==
  [][\A w \in Workers :
       Submits(w) => (ORDER_TRACKER = "EXIT_PENDING" /\ exitOwner = w)]_vars

C4_PrimaryRecordSane ==
  Present(positions) => is_position_sane(positions[KEY])

\* C5: a valid primary record is never replaced by a record that violates
\* the position invariants; the offending data goes to the marker key.
C5_ValidRecordNotOverwritten ==
  [][(Present(positions) /\ is_position_sane(positions[KEY]) /\ Present(positions'))
       => is_position_sane(positions'[KEY])]_vars

\* C8: full_exit removes the local record only after its exit order has been
\* observed with executed quantity > 0.
C8_RemovedOnlyAfterExecution ==
  [][\A w \in Workers :
       (pc[w] = "fe_close" /\ pc'[w] = "fe_clear") => loc[w].resp > 0]_vars

\* C9: when the exchange reports no live position, full_exit submits no
\* order, leaves the local record in the store, leaves the tracker state
\* unchanged, and sets binance_missing_since to the current time if unset.
C9_NotLiveKeepsRecord ==
  [][\A w \in Workers :
       (pc[w] = "fe_live" /\ pc'[w] = "fe_notify") =>
         /\ sent' = sent /\ orders' = orders /\ exAmt' = exAmt
         /\ ORDER_TRACKER' = ORDER_TRACKER
         /\ Present(positions) =>
              /\ Present(positions')
              /\ IF positions[KEY].binance_missing_since = 0
                   THEN positions'[KEY] =
                          [positions[KEY] EXCEPT !.binance_missing_since = now]
                   ELSE positions'[KEY] = positions[KEY]]_vars

\* full_exit found the exchange position gone and has just stamped the record,
\* later than the start of the clock; no order, tracker untouched
C9_Witness ==
  \E w \in Workers :
    /\ pc[w] = "fe_notify"
    /\ Present(positions)
    /\ positions[KEY].binance_missing_since = now /\ now > 1
    /\ ORDER_TRACKER = "NONE"
    /\ sent[positions[KEY].id] = 0

\* C10: when a full_exit whose exit order was executed ends (by returning, or
\* by an exception that ends its thread), the record it exited is absent from
\* the store, the tracker state of the key is NONE and exactly one exit
\* lifecycle row has been appended for the record.
C10_ExecutedExitCompletes ==
  [][\A w \in Workers :
       (pc[w] \in {"fe_record", "fe_close", "fe_clear"} /\ loc[w].resp > 0
        /\ pc'[w] \in {"idle", "dead"}) =>
         /\ ~(Present(positions') /\ positions'[KEY].id = loc[w].pid)
         /\ ORDER_TRACKER' = "NONE"
         /\ lifecycle'[loc[w].pid] = 1]_vars

\* a sync pass of the exit controller is applied in this step
SyncPass == pc["exit_loop"] = "sync" /\ pc'["exit_loop"] # "sync"

\* C6: sync_with_binance never removes a local record in a pass where
\* binance_missing_since is unset or now - binance_missing_since is less than
\* the grace period.
C6_NoRemovalWithinGrace ==
  [][(SyncPass /\ Present(positions) /\ ~Present(positions')) =>
       /\ positions[KEY].binance_missing_since # 0
       /\ now - positions[KEY].binance_missing_since >= BINANCE_MISSING_GRACE_SECONDS]_vars

\* a pass found the exchange position absent, the record stamped earlier and
\* still within the grace period, and kept the record
C6_Witness ==
  /\ pc["exit_loop"] = "el_eval"
  /\ Present(positions)
  /\ loc["exit_loop"].missing_since # 0
  /\ loc["exit_loop"].now_ts > loc["exit_loop"].missing_since
  /\ loc["exit_loop"].now_ts - loc["exit_loop"].missing_since < BINANCE_MISSING_GRACE_SECONDS

AppendsTp1Row == \E w \in Workers : Tp1Update(w)

\* check_partial_tp returns in this step from a poll that saw executed > 0
\* with at least one step left of the stored record
CptPartialFill(w) ==
  /\ pc[w] = "cpt_poll" /\ pc'[w] = "idle"
  /\ loc[w].resp > 0
  /\ Holds(w) /\ positions[KEY].size - loc[w].resp >= 1

\* C11: after a partial TP whose order filled executedTrimmed > 0 and left at
\* least one step, the record has size = previous size - executedTrimmed,
\* partial_tp_done, tp1_triggered, awaiting_trail_activation and breakeven
\* set, stop_loss = entry_price, and one TP1 lifecycle row has been written.
C11_PartialFillOutcome ==
  [][CptPartialFill("scalper") =>
       /\ Present(positions')
       /\ positions'[KEY].size = positions[KEY].size - loc["scalper"].resp
       /\ positions'[KEY].partial_tp_done
       /\ positions'[KEY].tp1_triggered
       /\ positions'[KEY].awaiting_trail_activation
       /\ positions'[KEY].stop_loss = positions[KEY].entry_price
       /\ positions'[KEY].breakeven
       /\ AppendsTp1Row]_vars

\* a partial-TP handler returns in this step from an order that was accepted
\* and showed no fill: check_partial_tp after its poll timed out
\* (position_manager.py:537-548), handle_tp1 on a response with
\* executedQty "0" (exit_manager.py:498-510; it does not poll)
NoFillReturn(w) ==
  /\ pc'[w] = "idle"
  /\ \/ pc[w] = "cpt_poll" /\ loc[w].resp <= 0
     \/ pc[w] = "tp1_update" /\ loc[w].resp = 0

\* C12: when a partial-TP order is placed and no fill is observed, size,
\* stop_loss, partial_tp_done and tp1_triggered of the position are as before
\* the attempt and no TP1 lifecycle row is appended.
C12_NoFillKeepsRecord ==
  [][\A w \in Workers :
       (NoFillReturn(w) /\ Holds(w)) =>
         /\ Present(positions')
         /\ positions'[KEY].size = positions[KEY].size
         /\ positions'[KEY].stop_loss = positions[KEY].stop_loss
         /\ positions'[KEY].partial_tp_done = positions[KEY].partial_tp_done
         /\ positions'[KEY].tp1_triggered = positions[KEY].tp1_triggered
         /\ ~AppendsTp1Row]_vars

\* futures_cancel_order is called for the worker's order in this step
\* (position_manager.py:543-547): the order is gone if the call succeeded,
\* still resting if it raised
AttemptsCancel(w) ==
  /\ pc[w] = "cpt_poll" /\ loc[w].resp <= 0
  /\ \E cancelled \in BOOLEAN :
       orders' = [orders EXCEPT ![w] = IF cancelled THEN 0 ELSE @]

\* C13: when a partial-TP order is placed and no fill is observed within the
\* poll timeout, the order's id is on the position record
\* (last_partial_order_id) and a cancel of the order was attempted when the
\* handler returns.
C13_NoFillPersistsOrderId ==
  [][(pc["scalper"] = "cpt_poll" /\ loc["scalper"].resp <= 0
      /\ pc'["scalper"] = "idle" /\ Holds("scalper")) =>
       /\ Present(positions')
       /\ positions'[KEY].last_partial_order_id = order_id("scalper")
       /\ AttemptsCancel("scalper")]_vars

\* ------------------------------------------------ partial-TP size arithmetic
\* The size computations of the two partial paths on quantities in half
\* steps, so that sizes and fills that are not multiples of the step occur.
\* Float rounding of the subtraction is not modelled.

CeilDiv(a, b) == (a + b - 1) \div b

\* get_min_qty_by_min_notional followed by the rounding up to a multiple of
\* the step in get_trimmed_quantity (symbol_precision.py:162-185, 216-230),
\* in steps: one step when no price is given
get_min_qty_steps(price) ==
  IF price = None THEN 1 ELSE Max(1, CeilDiv(MIN_NOTIONAL_STEPS_E2, price))

\* symbol_precision.get_trimmed_quantity(symbol, qty, price), qty in half
\* steps, result in steps: floor to the step, and the minimum quantity when
\* the floor is zero
get_trimmed_quantity(halfSteps, price) ==
  IF halfSteps <= 0 THEN 0
  ELSE IF halfSteps \div 2 >= 1 THEN halfSteps \div 2
  ELSE get_min_qty_steps(price)

\* prices at which a partial TP is evaluated: 50.00 and 103.00
TrimPrices == {5000, 10300}

\* stored size, executed quantity of the reduce-only order (at most the
\* size) and price
TrimInputs ==
  {[phase |-> "in", current_size |-> c, executed |-> e, price |-> p] :
     c \in 1..MaxHalf, e \in 0..MaxHalf, p \in TrimPrices}

rest == <<ORDER_TRACKER, TRACKER_LOCK, positions, exAmt, orders, sent, lifecycle, now,
          pc, loc, exitOwner, nextId, ticks, calls, results, peak_price, positions_file>>

\* check_partial_tp, position_manager.py:532-578: executed_trimmed, then
\* closed / kept with new_size_trimmed, or the unfilled return
CptResize ==
  /\ calc.phase = "in"
  /\ LET executed_trimmed == get_trimmed_quantity(calc.executed, calc.price)
         new_size_raw == Max(0, calc.current_size - 2 * executed_trimmed)
         new_size_trimmed == get_trimmed_quantity(new_size_raw, calc.price)
         minimal_step == get_trimmed_quantity(1, calc.price)
         outcome == IF executed_trimmed <= 0 THEN "unfilled"
                    ELSE IF new_size_trimmed <= 0 \/ new_size_trimmed < minimal_step
                      THEN "closed"
                    ELSE "kept"
     IN calc' = [phase |-> "out", path |-> "check_partial_tp",
                 current_size |-> calc.current_size, price |-> calc.price,
                 executed |-> 2 * executed_trimmed, outcome |-> outcome,
                 size |-> IF outcome = "kept" THEN 2 * new_size_trimmed
                          ELSE calc.current_size]
  /\ UNCHANGED rest

\* handle_tp1, exit_manager.py:498-510: executed_qty as reported, the new
\* size written without trimming
Tp1Resize ==
  /\ calc.phase = "in"
  /\ calc' = [phase |-> "out", path |-> "handle_tp1",
              current_size |-> calc.current_size, price |-> calc.price,
              executed |-> calc.executed, outcome |-> "kept",
              size |-> Max(0, calc.current_size - calc.executed)]
  /\ UNCHANGED rest

InitTrim ==
  /\ InitCommon /\ positions = [k \in Keys |-> NoPos]
  /\ calc \in {i \in TrimInputs : i.executed <= i.current_size}

NextTrim == CptResize \/ Tp1Resize

SpecTrim == InitTrim /\ [][NextTrim]_vars

\* C14: every size written by the partial-TP paths (check_partial_tp,
\* handle_tp1) is at most the size stored before, for any stored size and
\* executed quantity, multiples of the step or not.
C14_SizeNeverIncreases ==
  (calc.phase = "out" /\ calc.outcome = "kept") => calc.size <= calc.current_size

\* C15: after a partial-TP fill with executedTrimmed > 0, a residual
\* size - executedTrimmed below one step means the position is closed, not
\* kept with a residual size.
C15_SubStepResidualCloses ==
  (/\ calc.phase = "out" /\ calc.path = "check_partial_tp"
   /\ calc.outcome # "unfilled"
   /\ calc.current_size - calc.executed < 2) => calc.outcome = "closed"

\* ------------------------------------------------------------- peak price
\* order_monitor's peak tracking against the main thread closing and
\* re-entering the position.  The exit controller's own set_peak_price call
\* (exit_manager.py:664-669) sits in the trailing block, which needs a
\* trail_active record that passes _pos_is_sane; trail activation moves the
\* stop above the entry, so no such record exists and the call is not
\* reached.
PeakEntryPrices == {10000, 10400}   \* fill prices of entries, 100.00 and 104.00
PeakPrices == {10300, 10500}        \* polled prices, above every stop loss

\* execute_trade persists the record of a filled entry with
\* peak_price = entry_price (scalper_runner.py:397-415)
EntryAt(price, size) ==
  /\ ~Present(positions)
  /\ nextId <= MaxPositions
  /\ positions' = add_position(positions, "long",
                    [entry_price |-> price, size |-> size,
                     stop_loss |-> price - 300, take_profit |-> price + 600], nextId)
  /\ peak_price' = price
  /\ exAmt' = size
  /\ nextId' = nextId + 1
  /\ UNCHANGED <<trk, TRACKER_LOCK, calls, results, calc, positions_file, ghost, orders, now, pc, loc, ticks>>

\* the position is exited and close_position pops the record
\* (position_manager.py:342-389)
PkClose ==
  /\ Present(positions)
  /\ positions' = close_position(positions, "long")
  /\ peak_price' = None
  /\ exAmt' = 0
  /\ loc' = AfterStore(loc, positions, positions')
  /\ UNCHANGED <<trk, TRACKER_LOCK, calls, results, calc, positions_file, ghost, orders, now, pc, nextId, ticks>>

\* order_watcher.py:21-33: the record is taken from the snapshot and
\* peak_price = pos.get("peak_price", pos["entry_price"]) is read
OmReadPeak ==
  /\ pc["order_monitor"] = "idle"
  /\ Present(positions)
  /\ loc' = [loc EXCEPT !["order_monitor"] =
               [LocInit EXCEPT !.pid = positions[KEY].id,
                               !.peak = IF peak_price = None
                                          THEN positions[KEY].entry_price ELSE peak_price]]
  /\ pc' = [pc EXCEPT !["order_monitor"] = "om_price"]
  /\ UNCHANGED <<trk, aux, ghost, positions, exAmt, orders, now, nextId, ticks>>

\* order_watcher.py:37-67: the price is fetched (no stop-loss hit at these
\* prices) and compared with the peak read before
OmFetchPrice(price) ==
  /\ pc["order_monitor"] = "om_price"
  /\ IF price > loc["order_monitor"].peak
       THEN /\ pc' = [pc EXCEPT !["order_monitor"] = "om_set"]
            /\ loc' = [loc EXCEPT !["order_monitor"].price = price]
       ELSE /\ pc' = [pc EXCEPT !["order_monitor"] = "idle"]
            /\ loc' = Return(loc, "order_monitor")
  /\ UNCHANGED <<trk, aux, ghost, positions, exAmt, orders, now, nextId, ticks>>

\* PositionManager.set_peak_price (position_manager.py:327-334): the record
\* now under the key gets peak_price = price, whatever it held
set_peak_price(store, peak, price) == IF Present(store) THEN price ELSE peak

OmSetPeak ==
  /\ pc["order_monitor"] = "om_set"
  /\ peak_price' = set_peak_price(positions, peak_price, loc["order_monitor"].price)
  /\ pc' = [pc EXCEPT !["order_monitor"] = "idle"]
  /\ loc' = Return(loc, "order_monitor")
  /\ UNCHANGED <<trk, TRACKER_LOCK, calls, results, calc, positions_file, ghost, positions, exAmt, orders,
                 now, nextId, ticks>>

NextPeak ==
  \/ \E price \in PeakEntryPrices, size \in EntrySizes : EntryAt(price, size)
  \/ PkClose
  \/ OmReadPeak
  \/ \E price \in PeakPrices : OmFetchPrice(price)
  \/ OmSetPeak

SpecPeak == Init /\ [][NextPeak]_vars

\* C16: the peak_price of a LONG position never decreases, whatever the
\* sequence of set_peak_price calls and whatever runs concurrently with them.
C16_PeakMonotone ==
  [][(/\ Present(positions) /\ Present(positions')
      /\ positions'[KEY].id = positions[KEY].id
      /\ peak_price # None /\ peak_price' # None) =>
       peak_price' >= peak_price]_vars

\* C17: in every persisted state of the store, a position with
\* partial_tp_done also has tp1_triggered and at least one of breakeven,
\* awaiting_trail_activation, trail_active.
C17_Tp1Ordering ==
  \A k \in Keys :
    (positions[k] # NoPos /\ positions[k].partial_tp_done) =>
      /\ positions[k].tp1_triggered
      /\ \/ positions[k].breakeven
         \/ positions[k].awaiting_trail_activation
         \/ positions[k].trail_active

\* C18: the tracker state of the key changes only along the cycle
\* NONE -> ENTRY_PENDING -> OPEN -> EXIT_PENDING -> NONE.
C18_TrackerCycle ==
  [][ORDER_TRACKER' # ORDER_TRACKER =>
       <<ORDER_TRACKER, ORDER_TRACKER'>> \in
         {<<"NONE", "ENTRY_PENDING">>, <<"ENTRY_PENDING", "OPEN">>,
          <<"OPEN", "EXIT_PENDING">>, <<"EXIT_PENDING", "NONE">>}]_vars

\* ------------------------------------------------------------ execute_trade
\* The main thread acting on a SHORT signal for the symbol, whose LONG side
\* is entered by Entry, against the exchange and the exit controller's sync
\* passes.  Entries use positionSide, so the account is in hedge mode and the
\* two sides are separate exchange positions; the short side of the exchange
\* is not modelled.
TRADER == "scalper"

\* outcomes of the three preflight steps (scalper_runner.py:176-262)
PreflightOutcomes == {"lot_range", "min_notional", "margin", "ok"}

\* a variant falling through to the reversal block whatever the checks said
PreflightPassesAlways(verdict) == TRUE

\* the reversal block is reached only when no preflight check returned
PreflightPasses(verdict) == verdict = "ok"

\* scalper_runner.py:146-173, the same-direction guard
TradeGuard ==
  /\ pc[TRADER] = "idle"
  /\ IF positions[Key("short")] # NoPos
       THEN /\ pc' = [pc EXCEPT ![TRADER] = "trade_checked"]
            /\ loc' = [loc EXCEPT ![TRADER].verdict = "same_side"]
       ELSE /\ pc' = [pc EXCEPT ![TRADER] = "trade_preflight"]
            /\ UNCHANGED loc
  /\ UNCHANGED <<trk, aux, ghost, positions, exAmt, orders, now, nextId, ticks>>

\* scalper_runner.py:176-262: lot range, minimum notional and margin are
\* checked against exchange info and balance; nothing local is written
TradePreflight ==
  /\ pc[TRADER] = "trade_preflight"
  /\ \E v \in PreflightOutcomes : loc' = [loc EXCEPT ![TRADER].verdict = v]
  /\ pc' = [pc EXCEPT ![TRADER] = "trade_checked"]
  /\ UNCHANGED <<trk, aux, ghost, positions, exAmt, orders, now, nextId, ticks>>

\* the return of a failed check, or the fall through to :264
TradeBranch ==
  /\ pc[TRADER] = "trade_checked"
  /\ IF PreflightPasses(loc[TRADER].verdict)
       THEN /\ pc' = [pc EXCEPT ![TRADER] = "trade_reverse"]
            /\ UNCHANGED loc
       ELSE /\ pc' = [pc EXCEPT ![TRADER] = "idle"]
            /\ loc' = Return(loc, TRADER)
  /\ UNCHANGED <<trk, aux, ghost, positions, exAmt, orders, now, nextId, ticks>>

\* scalper_runner.py:264-304: the opposite record is looked up; with
\* prev_qty > 0 the market close order is sent (an exception returns), with
\* prev_qty <= 0 neither order nor close_position happens
TradeReverse ==
  /\ pc[TRADER] = "trade_reverse"
  /\ LET prev == positions[KEY]
     IN IF ~Present(positions)
          THEN /\ pc' = [pc EXCEPT ![TRADER] = "trade_entry"]
               /\ UNCHANGED <<loc, orders, exAmt>>
          ELSE IF prev.size = None
            THEN /\ pc' = [pc EXCEPT ![TRADER] = "idle"]
                 /\ loc' = Return(loc, TRADER)
                 /\ UNCHANGED <<orders, exAmt>>
          ELSE IF prev.size > 0
            THEN \E r \in Responses(TRADER, prev.size) :
                   /\ PlaceOrder(TRADER, prev.size, r)
                   /\ IF r = None
                        THEN /\ pc' = [pc EXCEPT ![TRADER] = "idle"]
                             /\ loc' = Return(loc, TRADER)
                        ELSE /\ pc' = [pc EXCEPT ![TRADER] = "trade_rev_close"]
                             /\ loc' = [loc EXCEPT ![TRADER].pid = prev.id,
                                                   ![TRADER].resp = r]
          ELSE /\ pc' = [pc EXCEPT ![TRADER] = "trade_entry"]
               /\ UNCHANGED <<loc, orders, exAmt>>
  /\ UNCHANGED <<trk, aux, ghost, positions, now, nextId, ticks>>

\* scalper_runner.py:306, close_position(symbol, opposite_dir)
TradeReverseClose ==
  /\ pc[TRADER] = "trade_rev_close"
  /\ positions' = close_position(positions, "long")
  /\ loc' = AfterStore(loc, positions, positions')
  /\ pc' = [pc EXCEPT ![TRADER] = "trade_entry"]
  /\ UNCHANGED <<trk, aux, ghost, exAmt, orders, now, nextId, ticks>>

\* scalper_runner.py:338-350: position mode, leverage and the market entry
\* order; any of the calls raising ends execute_trade
TradeEntrySend ==
  /\ pc[TRADER] = "trade_entry"
  /\ nextId <= MaxPositions
  /\ \E accepted \in BOOLEAN :
       IF accepted
         THEN /\ pc' = [pc EXCEPT ![TRADER] = "trade_persist"]
              /\ UNCHANGED loc
         ELSE /\ pc' = [pc EXCEPT ![TRADER] = "idle"]
              /\ loc' = Return(loc, TRADER)
  /\ UNCHANGED <<trk, aux, ghost, positions, exAmt, orders, now, nextId, ticks>>

\* scalper_runner.py:352-443: the record of the filled entry is persisted,
\* then its partial TP fields
TradePersist ==
  /\ pc[TRADER] = "trade_persist"
  /\ positions' =
       update_position(
         add_position(positions, "short",
           [entry_price |-> EntryPrice, size |-> 1,
            stop_loss |-> 2 * EntryPrice - EntrySL,
            take_profit |-> 2 * EntryPrice - EntryTP], nextId),
         "short",
         [partial_tp_price |-> 2 * EntryPrice - EntryPTP, partial_tp_size |-> 1], nextId)
  /\ nextId' = nextId + 1
  /\ pc' = [pc EXCEPT ![TRADER] = "idle"]
  /\ loc' = Return(loc, TRADER)
  /\ UNCHANGED <<trk, aux, ghost, exAmt, orders, now, ticks>>

\* the prices the exit controller polls: no exit, and the first target
TradePrices == {EntryPrice, EntryPTP}

\* a LONG entry through the same function; Entry is execute_trade without a
\* reversal, which is what it does while no SHORT record exists
TradeLongEntry(size) == positions[Key("short")] = NoPos /\ Entry(size)

NextTrade ==
  \/ \E size \in EntrySizes : TradeLongEntry(size)
  \/ ExchangeFill(TRADER)
  \/ ExchangeClose
  \/ SyncFetch("exit_loop")
  \/ SyncApply("exit_loop")
  \/ \E price \in TradePrices : ElEval(price)
  \/ Tp1Live("exit_loop")
  \/ Tp1Send("exit_loop")
  \/ Tp1Update("exit_loop")
  \/ TradeGuard
  \/ TradePreflight
  \/ TradeBranch
  \/ TradeReverse
  \/ TradeReverseClose
  \/ TradeEntrySend
  \/ TradePersist

SpecTrade == Init /\ [][NextTrade]_vars

BothSides == positions[Key("long")] # NoPos /\ positions[Key("short")] # NoPos

EntryOrderPlaced == pc[TRADER] = "trade_entry" /\ pc'[TRADER] = "trade_persist"

\* C19: when a SHORT entry passes the preflight checks while a LONG record
\* of the symbol exists, the entry order is placed only once the LONG record
\* has been removed, and the store never holds both records of the symbol.
C19_ReversalBeforeEntry ==
  /\ [][EntryOrderPlaced => ~Present(positions)]_vars
  /\ [](~BothSides)

TraderStep == pc'[TRADER] # pc[TRADER]

SendsReversalOrder ==
  /\ pc[TRADER] = "trade_reverse"
  /\ Present(positions)
  /\ positions[KEY].size # None
  /\ positions[KEY].size > 0

OppositeUntouched ==
  /\ orders' = orders
  /\ exAmt' = exAmt
  /\ positions'[KEY] = positions[KEY]
  /\ ~SendsReversalOrder

\* C20: in every step execute_trade takes while its preflight checks have not
\* all passed (before the verdict, or after a rejection by the same-side
\* guard, the lot range, the minimum notional or the margin check), no order
\* is sent for the LONG position and the LONG record stays as it is.
C20_RejectedEntryLeavesOpposite ==
  [][(TraderStep /\ loc[TRADER].verdict # "ok") => OppositeUntouched]_vars

\* a SHORT attempt rejected by a preflight check while a LONG position is
\* open on the exchange and in the store
C20_Witness ==
  /\ pc[TRADER] = "trade_checked"
  /\ loc[TRADER].verdict \in {"lot_range", "min_notional", "margin"}
  /\ Present(positions)
  /\ positions[KEY].size # None
  /\ positions[KEY].size > 0
  /\ exAmt > 0

\* ------------------------------------------------- the entry pipeline
\* One scalper cycle of the main thread for the LONG key, step by step
\* (scalper_runner.py:51-115 and execute_trade): the cycle's own sync, then
\* check_partial_tp, which returns at once without a record, the same-side
\* guard with the preflight checks, the entry order and the persist.  The
\* exit controller runs beside it.  The one-hour model path ends in an
\* AttributeError before any order (model_runner.py:115, :144: PositionManager
\* has no can_open_trade / get_open_trade_count), so the scalper is the only
\* thread placing entry orders.
EnPrices == {EntrySL, EntryPrice}

\* scalper_runner.py:59-60 and :146-262 with no record under the key
EnGuard ==
  /\ pc[TRADER] = "cpt"
  /\ ~Present(positions)
  /\ \E passes \in BOOLEAN :
       pc' = [pc EXCEPT ![TRADER] = IF passes THEN "en_send" ELSE "idle"]
  /\ loc' = Return(loc, TRADER)
  /\ UNCHANGED <<trk, aux, ghost, positions, exAmt, orders, now, nextId, ticks>>

\* scalper_runner.py:338-350: the market entry order, positionSide = LONG;
\* a raising call ends execute_trade
EnSend(size) ==
  /\ pc[TRADER] = "en_send"
  /\ \E accepted \in BOOLEAN :
       IF accepted
         THEN /\ exAmt' = exAmt + size
              /\ pc' = [pc EXCEPT ![TRADER] = "en_persist"]
              /\ loc' = [loc EXCEPT ![TRADER].qty = size]
         ELSE /\ pc' = [pc EXCEPT ![TRADER] = "idle"]
              /\ UNCHANGED <<exAmt, loc>>
  /\ UNCHANGED <<trk, aux, ghost, positions, orders, now, nextId, ticks>>

\* scalper_runner.py:397-443: add_position, then the partial TP fields
EnPersist ==
  /\ pc[TRADER] = "en_persist"
  /\ nextId <= MaxPositions
  /\ positions' =
       update_position(
         add_position(positions, "long",
           [entry_price |-> EntryPrice, size |-> loc[TRADER].qty,
            stop_loss |-> EntrySL, take_profit |-> EntryTP], nextId),
         "long",
         [partial_tp_price |-> EntryPTP,
          partial_tp_size |-> (loc[TRADER].qty + 1) \div 2], nextId)
  /\ nextId' = nextId + 1
  /\ pc' = [pc EXCEPT ![TRADER] = "idle"]
  /\ loc' = Return(AfterStore(loc, positions, positions'), TRADER)
  /\ UNCHANGED <<trk, aux, ghost, exAmt, orders, now, ticks>>

NextEntry ==
  \/ SyncFetch(TRADER)
  \/ SyncApply(TRADER)
  \/ Cpt(EntryPrice)
  \/ EnGuard
  \/ \E size \in EntrySizes : EnSend(size)
  \/ EnPersist
  \/ ExchangeFill("exit_loop")
  \/ ExchangeClose
  \/ SyncFetch("exit_loop")
  \/ SyncApply("exit_loop")
  \/ \E price \in EnPrices : ElEval(price)
  \/ FeLive("exit_loop")
  \/ FeNotify("exit_loop")
  \/ FeCas("exit_loop")
  \/ FeSend("exit_loop")
  \/ FeRecord("exit_loop")
  \/ FeClose("exit_loop")
  \/ FeClear("exit_loop")

SpecEntry == Init /\ [][NextEntry]_vars

EnOrderPlaced == pc[TRADER] = "en_send" /\ pc'[TRADER] = "en_persist"

\* C21: the entry pipeline places no entry order for the key while the store
\* holds a record for it.
C21_NoEntryOverRecord == [][EnOrderPlaced => ~Present(positions)]_vars

\* --------------------------------------------------- calls on drawn inputs
\* Functions applied once to inputs drawn by the initial state; calc holds
\* the input, then the outcome.

\* The exit paths under the two mode flags of config.json, dry_run
\* (core/config.py:39, read by exit_manager) and live_mode (read by
\* position_manager through get_config), with API credentials present.
\* fill is what the exchange reports for an order that was placed; order_ids
\* says whether the record carries sl_order_id / tp_order_id.
DryInputs ==
  {[phase |-> "in", kind |-> "exit", path |-> p, dry_run |-> dr, live_mode |-> lm,
    fill |-> f, order_ids |-> ids] :
     p \in {"full_exit", "handle_tp1", "check_partial_tp", "check_stop_loss",
            "close_position"},
     dr \in BOOLEAN, lm \in BOOLEAN,
     f \in {"none", "partial", "all"}, ids \in BOOLEAN}

\* exit_manager._send_market_exit (:169-195): create-order requests made
send_market_exit_orders(dry_run) == IF dry_run THEN 0 ELSE 1

\* PositionManager.close_position (:359-378): cancel requests made
close_position_cancels(live_mode, order_ids) == IF live_mode /\ order_ids THEN 2 ELSE 0

\* create-order and cancel-order requests of one call of an exit path
exit_requests(c) ==
  LET cancels == close_position_cancels(c.live_mode, c.order_ids)
  IN CASE c.path = "full_exit" ->
            \* exit_manager.py:263-321: the order, then close_position
            [placed |-> send_market_exit_orders(c.dry_run), cancelled |-> cancels]
       [] c.path = "handle_tp1" ->
            \* exit_manager.py:486-510: the order, then update_position
            [placed |-> send_market_exit_orders(c.dry_run), cancelled |-> 0]
       [] c.path = "check_partial_tp" ->
            \* position_manager.py:442-472 simulated, :474-590 live
            IF ~c.live_mode
              THEN [placed |-> 0, cancelled |-> 0]
              ELSE [placed |-> 1,
                    cancelled |-> IF c.fill = "none" THEN 1
                                  ELSE IF c.fill = "all" THEN cancels ELSE 0]
       [] c.path = "check_stop_loss" ->
            \* position_manager.py:623-633 simulated, :635-706 live
            IF ~c.live_mode
              THEN [placed |-> 0, cancelled |-> 0]
              ELSE [placed |-> 1, cancelled |-> IF c.fill = "none" THEN 0 ELSE cancels]
       [] OTHER -> [placed |-> 0, cancelled |-> cancels]

ExitCall ==
  /\ calc.phase = "in" /\ calc.kind = "exit"
  /\ calc' = [calc EXCEPT !.phase = "out"] @@ exit_requests(calc)
  /\ UNCHANGED rest

\* add_position with a stop loss given: entries of 100.00 and 200.00, the
\* stop at distances (in 1/10000 of the entry) around 3% on either side of it
AddInputs ==
  {[phase |-> "in", kind |-> "add", direction |-> d, entry |-> e,
    sl |-> e + k * ((e * off) \div 10000)] :
     d \in Directions, e \in {10000, 20000}, k \in {-1, 1},
     off \in {0, 1, 299, 300, 301, 1000}}

\* position_manager.py:210-275 on an empty store: the stop loss persisted
AddCall ==
  /\ calc.phase = "in" /\ calc.kind = "add"
  /\ LET store == add_position([k \in Keys |-> NoPos], calc.direction,
                     [entry_price |-> calc.entry, size |-> 1, stop_loss |-> calc.sl,
                      take_profit |-> IF calc.direction = "long" THEN 2 * calc.entry ELSE 1],
                     1)
     IN calc' = [calc EXCEPT !.phase = "out"] @@
                [stored |-> store[Key(calc.direction)].stop_loss]
  /\ UNCHANGED rest

\* get_trimmed_quantity per symbol.  Quantities are in tenths of the symbol's
\* step on input and in steps on output, prices in 0.01; a symbol is its
\* minNotional / stepSize with the price in 0.01: the code defaults
\* (1e-6 / 1e-8) and a symbol with stepSize 0.001 and minNotional 5.
TrimSymbols == {[name |-> "default", notional_steps_e2 |-> MIN_NOTIONAL_STEPS_E2],
                [name |-> "step_0.001_notional_5", notional_steps_e2 |-> 500000]}

\* a variant answering one step whatever the price
get_min_qty_one_step(sym, price) == 1

\* symbol_precision.py:162-185 followed by the rounding up to a multiple of
\* the step (:216-230), in steps
get_min_qty_by_min_notional(sym, price) ==
  IF price = None \/ price <= 0 THEN 1
  ELSE Max(1, CeilDiv(sym.notional_steps_e2, price))

\* a variant rounding to the step above
get_trimmed_quantity_above(sym, tenths, price) ==
  IF tenths <= 0 THEN 0 ELSE tenths \div 10 + 1

\* symbol_precision.py:188-235: 0 for qty <= 0, the floor to the step when
\* that is at least a step, else the minimum quantity
get_trimmed_quantity_for(sym, tenths, price) ==
  IF tenths <= 0 THEN 0
  ELSE IF tenths \div 10 >= 1 THEN tenths \div 10
  ELSE get_min_qty_by_min_notional(sym, price)

\* quantities from 0 to 60 steps, among them 0.4 step; no price, 50.00,
\* 100.00, 103.00
TrimCallInputs ==
  {[phase |-> "in", kind |-> "trim", sym |-> sym, qty |-> q, price |-> pr] :
     sym \in TrimSymbols, q \in {0, 4, 9, 10, 15, 25, 490, 500, 600},
     pr \in {None, 5000, 10000, 10300}}

\* the function applied to the input, and once more to its own result
TrimCall ==
  /\ calc.phase = "in" /\ calc.kind = "trim"
  /\ LET result == get_trimmed_quantity_for(calc.sym, calc.qty, calc.price)
     IN calc' = [calc EXCEPT !.phase = "out"] @@
                [result |-> result,
                 again |-> get_trimmed_quantity_for(calc.sym, 10 * result, calc.price)]
  /\ UNCHANGED rest

CallInputs == DryInputs \cup AddInputs \cup TrimCallInputs

InitCalls ==
  /\ InitCommon /\ positions = [k \in Keys |-> NoPos]
  /\ calc \in CallInputs

NextCalls ==
  \/ ExitCall
  \/ AddCall
  \/ TrimCall

SpecCalls == InitCalls /\ [][NextCalls]_vars

\* C22: with dry_run enabled no exit path (full_exit, handle_tp1,
\* check_partial_tp, check_stop_loss, close_position) sends a create-order
\* or a cancel-order request, whatever the other flags are.
C22_DryRunSendsNothing ==
  (calc.phase = "out" /\ calc.kind = "exit" /\ calc.dry_run)
    => (calc.placed = 0 /\ calc.cancelled = 0)

\* C23: add_position with a stop loss closer to the entry than
\* max(min_sl_distance_pct, fallback_sl_pct) * entry on the adverse side
\* stores entry - that amount for LONG and entry + that amount for SHORT;
\* otherwise it stores the stop loss given.
C23_StopLossWidening ==
  (calc.phase = "out" /\ calc.kind = "add") =>
    LET amount == (calc.entry * Max(MIN_SL_PCT_E4, FALLBACK_SL_PCT_E4)) \div 10000
        distance == IF calc.direction = "long" THEN calc.entry - calc.sl
                    ELSE calc.sl - calc.entry
    IN calc.stored =
         IF distance < amount
           THEN (IF calc.direction = "long" THEN calc.entry - amount
                 ELSE calc.entry + amount)
           ELSE calc.sl

\* a LONG stop 2.99 under an entry of 100.00 was stored as 97.00
C23_Witness ==
  /\ calc.phase = "out" /\ calc.kind = "add" /\ calc.direction = "long"
  /\ calc.entry = 10000 /\ calc.sl = 9701 /\ calc.stored = 9700

\* C24: for price p > 0 and quantity q > 0 the trimmed quantity times p is
\* at least the symbol's minNotional, and the result is 0 only for q = 0.
C24_TrimmedMeetsNotional ==
  (calc.phase = "out" /\ calc.kind = "trim") =>
    /\ (calc.qty > 0 /\ calc.price # None /\ calc.price > 0)
         => calc.result * calc.price >= calc.sym.notional_steps_e2
    /\ (calc.result = 0) => (calc.qty = 0)

\* C25: get_trimmed_quantity applied to its own result returns that result.
C25_TrimIdempotent ==
  (calc.phase = "out" /\ calc.kind = "trim") => calc.again = calc.result

\* 1.5 steps were floored to 1 step, and 1 step was trimmed again; 0.9 step
\* at 50.00 was raised to the minimum and trimmed again
C25_Witness ==
  /\ calc.phase = "out" /\ calc.kind = "trim"
  /\ \/ calc.qty = 15 /\ calc.result = 1 /\ calc.again = 1
     \/ calc.qty = 9 /\ calc.price = 5000 /\ calc.result > 1 /\ calc.again = calc.result

C27_BreakevenPassesGate ==
  (/\ Present(positions)
   /\ positions[KEY].breakeven \/ positions[KEY].tp1_triggered
        \/ positions[KEY].awaiting_trail_activation
   /\ positions[KEY].stop_loss = positions[KEY].entry_price
   /\ positions[KEY].size > 0
   /\ positions[KEY].take_profit > positions[KEY].entry_price)
    => pos_is_sane(positions[KEY])

\* a pass of the exit controller over an open record at the given price
PassAt(price) == Present(positions) /\ positions[KEY].size > 0 /\ ElEval(price)

\* C30: a pass with awaiting_trail_activation set and the price 0.2% beyond
\* partial_tp_price (104.00 against 103.00) leaves trail_active = true,
\* stop_loss = partial_tp_price and awaiting_trail_activation = false; a pass
\* at a price short of the buffer (103.00) leaves the three fields as they were.
C30_TrailActivation ==
  [][/\ (PassAt(10400) /\ positions[KEY].awaiting_trail_activation
           /\ positions[KEY].partial_tp_price = EntryPTP)
        => /\ positions'[KEY].trail_active
           /\ positions'[KEY].stop_loss = EntryPTP
           /\ ~positions'[KEY].awaiting_trail_activation
     /\ (PassAt(EntryPTP) /\ positions[KEY].awaiting_trail_activation
           /\ positions[KEY].partial_tp_price = EntryPTP)
        => /\ positions'[KEY].trail_active = positions[KEY].trail_active
           /\ positions'[KEY].stop_loss = positions[KEY].stop_loss
           /\ positions'[KEY].awaiting_trail_activation
    ]_vars

\* C28: in a pass of the exit controller over an open position that passes
\* the sanity gate, a latest price at or beyond the stored take profit
\* (LONG: price >= take_profit) makes the controller call full_exit (reason
\* TP), whether or not the record has a partial_tp_price.
C28_FinalTakeProfit ==
  [][\A price \in Prices :
       (/\ PassAt(price)
        /\ pos_is_sane(positions[KEY])
        /\ price >= positions[KEY].take_profit)
         => pc'["exit_loop"] = "fe_live"]_vars

\* ------------------------------------------------------------- exit_time
\* The store is read from positions.json at construction (load_positions
\* coerces the numeric fields and keeps every other key), so a record of the
\* file may carry an exit_time; no code of the repository writes that key.
\* The file's exit_time is the boot time (1, passed at once) or 20, passed
\* after one Tick.
LoadedPos(t, size) ==
  LET base == [BlankPos EXCEPT !.id = 1, !.entry_price = EntryPrice, !.size = size,
                               !.stop_loss = EntrySL, !.take_profit = EntryTP,
                               !.partial_tp_price = EntryPTP,
                               !.partial_tp_size = (size + 1) \div 2]
  IN [f \in (DOMAIN BlankPos) \cup {"exit_time"} |->
        IF f = "exit_time" THEN t ELSE base[f]]

InitTime ==
  /\ \E t \in {1, 20}, size \in EntrySizes :
       /\ positions = [k \in Keys |-> IF k = KEY THEN LoadedPos(t, size) ELSE NoPos]
       /\ exAmt = size
  /\ ORDER_TRACKER = "NONE"
  /\ TRACKER_LOCK = "free"
  /\ orders = [w \in Workers |-> 0]
  /\ sent = [i \in Ids |-> 0]
  /\ lifecycle = [i \in Ids |-> 0]
  /\ now = 1
  /\ pc = [w \in Workers |-> "idle"]
  /\ loc = [w \in Workers |-> LocInit]
  /\ exitOwner = "none"
  /\ nextId = 2
  /\ ticks = 0
  /\ calls = [w \in Workers |-> 0]
  /\ results = [t |-> 0, f |-> 0]
  /\ peak_price = None
  /\ calc = CalcIdle
  /\ positions_file = FileOf(positions)

\* runner.py:172-175 starts the exit controller and the order monitor (the
\* candle listener and the heartbeat touch no position); time_exit_loop and
\* watchdog_loop are defined in order_watcher.py and started nowhere
ExitLoopStep ==
  LET w == "exit_loop"
  IN \/ SyncFetch(w) \/ SyncApply(w)
     \/ \E price \in Prices : ElEval(price)
     \/ FeLive(w) \/ FeNotify(w) \/ FeCas(w) \/ FeSend(w) \/ FeRecord(w)
     \/ FeClose(w) \/ FeClear(w)
     \/ Tp1Live(w) \/ Tp1Send(w) \/ Tp1Update(w)

OrderMonitorStep ==
  LET w == "order_monitor"
  IN \/ \E price \in Prices : OmEval(price)
     \/ FeLive(w) \/ FeNotify(w) \/ FeCas(w) \/ FeSend(w) \/ FeRecord(w)
     \/ FeClose(w) \/ FeClear(w)

NextTime ==
  \/ ExitLoopStep
  \/ OrderMonitorStep
  \/ \E w \in Workers : ExchangeFill(w)
  \/ ExchangeClose
  \/ Tick

\* both threads are `while True` loops with a sleep: each keeps taking steps
SpecTime ==
  InitTime /\ [][NextTime]_vars /\ WF_vars(ExitLoopStep) /\ WF_vars(OrderMonitorStep)

\* the record of the key has an exit_time and the clock has passed it
\* (order_watcher.py:105-106, `exit_time and now >= exit_time`)
ExitTimePassed ==
  /\ Present(positions)
  /\ "exit_time" \in DOMAIN positions[KEY]
  /\ positions[KEY].exit_time # None
  /\ now >= positions[KEY].exit_time

load_positions(file) ==
  IF file.state = "ok" THEN file.data ELSE [k \in Keys |-> NoPos]

\* the mutation of worker w, up to its save_positions call: handle_tp1's
\* update_position (exit controller), full_exit's close_position of the SHORT
\* record (order monitor), check_partial_tp's update_position (main thread)
Mutate(w) ==
  /\ pc[w] = "idle"
  /\ \/ /\ w = "exit_loop"
        /\ Present(positions) /\ ~positions[KEY].tp1_triggered
        /\ positions' = update_position(positions, "long",
                          [tp1_triggered |-> TRUE, awaiting_trail_activation |-> TRUE,
                           stop_loss |-> positions[KEY].entry_price], 0)
     \/ /\ w = "order_monitor"
        /\ positions[Key("short")] # NoPos
        /\ positions' = close_position(positions, "short")
     \/ /\ w = "scalper"
        /\ Present(positions) /\ ~positions[KEY].partial_tp_done
        /\ positions' = update_position(positions, "long",
                          [partial_tp_done |-> TRUE, breakeven |-> TRUE], 0)
  /\ pc' = [pc EXCEPT ![w] = "sv_open"]
  /\ UNCHANGED <<trk, aux, ghost, exAmt, orders, now, loc, nextId, ticks>>

\* save_positions, position_manager.py:114-120, statement by statement
Save(w) ==
  /\ \/ /\ pc[w] = "sv_open"
        /\ positions_file' = [state |-> "empty", data |-> [k \in Keys |-> NoPos], n |-> 0]
        /\ pc' = [pc EXCEPT ![w] = "sv_dump"]
        /\ UNCHANGED loc
     \/ /\ pc[w] = "sv_dump"
        /\ loc' = [loc EXCEPT ![w].buf = positions]
        /\ pc' = [pc EXCEPT ![w] = "sv_close"]
        /\ UNCHANGED positions_file
     \/ /\ pc[w] = "sv_close"
        /\ LET text == FileOf(loc[w].buf)
           IN positions_file' =
                IF text.n >= positions_file.n THEN text
                ELSE [state |-> "torn", data |-> [k \in Keys |-> NoPos],
                      n |-> positions_file.n]
        /\ pc' = [pc EXCEPT ![w] = "idle"]
        /\ loc' = [loc EXCEPT ![w] = LocInit]
  /\ UNCHANGED <<trk, TRACKER_LOCK, calls, results, peak_price, calc, ghost,
                 positions, exAmt, orders, now, nextId, ticks>>

\* the process dies and is started again: PositionManager() reads the file
CrashRestart ==
  /\ positions' = load_positions(positions_file)
  /\ pc' = [w \in Workers |-> "idle"]
  /\ loc' = [w \in Workers |-> LocInit]
  /\ <<positions', pc'>> # <<positions, pc>>
  /\ UNCHANGED <<trk, aux, ghost, exAmt, orders, now, nextId, ticks>>

\* the store as loaded at startup from a complete file: a LONG and a SHORT
\* record (hedge mode)
InitStore ==
  /\ positions =
       add_position(
         add_position([k \in Keys |-> NoPos], "long",
           [entry_price |-> EntryPrice, size |-> 2, stop_loss |-> EntrySL,
            take_profit |-> EntryTP, partial_tp_price |-> EntryPTP], 1),
         "short",
         [entry_price |-> EntryPrice, size |-> 1, stop_loss |-> EntryPTP,
          take_profit |-> EntrySL], 2)
  /\ positions_file = FileOf(positions)
  /\ ORDER_TRACKER = "NONE"
  /\ TRACKER_LOCK = "free"
  /\ exAmt = 2
  /\ orders = [w \in Workers |-> 0]
  /\ sent = [i \in Ids |-> 0]
  /\ lifecycle = [i \in Ids |-> 0]
  /\ now = 1
  /\ pc = [w \in Workers |-> "idle"]
  /\ loc = [w \in Workers |-> LocInit]
  /\ exitOwner = "none"
  /\ nextId = 3
  /\ ticks = 0
  /\ calls = [w \in Workers |-> 0]
  /\ results = [t |-> 0, f |-> 0]
  /\ peak_price = None
  /\ calc = CalcIdle

NextStore ==
  \/ \E w \in Workers : Mutate(w)
  \/ \E w \in Workers : Save(w)
  \/ CrashRestart

SpecStore == InitStore /\ [][NextStore]_vars

\* C31: mutations and file writes of different workers never overlap, so
\* whenever no worker is inside a mutation or save_positions the file on disk
\* is the serialization of the store in memory (no update is lost, the file
\* is one consistent snapshot).
C31_SerializedStore ==
  (\A w \in Workers : pc[w] = "idle") => load_positions(positions_file) = positions

\* C32: a crash while the store is being persisted leaves a file holding the
\* complete previous or the complete new snapshot: the LONG record, which is
\* in every snapshot written before the crash, is in the store the next
\* startup loads.
C32_CrashKeepsSnapshot ==
  [][(CrashRestart /\ Present(positions)) => Present(positions')]_vars

\* C33: an error raised while the exit controller evaluates a position does
\* not stop the controller: the pass goes on and later passes run, so the
\* exit controller's thread never ends.
C33_LoopSurvivesError == pc["exit_loop"] # "dead"

\* C34: whenever no full_exit call is executing for the key, the tracker
\* state of the key is not EXIT_PENDING: every return path of a full_exit
\* that acquired the exit lock releases it.
C34_ExitLockReleased ==
  (\A w \in Workers :
     pc[w] \notin {"fe_live", "fe_notify", "fe_cas", "fe_send", "fe_record",
                   "fe_close", "fe_clear"})
    => ORDER_TRACKER # "EXIT_PENDING"

\* the exit controller (TP1 handling of price_poll_exit_loop) and the scalper
\* cycle of the main thread (sync, check_partial_tp, entry) on the same
\* position, at prices between the stop loss and the take profit
NextPartial ==
  \/ \E size \in EntrySizes : Entry(size)
  \/ \E w \in Workers : ExchangeFill(w)
  \/ SyncFetch("exit_loop")
  \/ SyncApply("exit_loop")
  \/ \E price \in TradePrices : ElEval(price)
  \/ Tp1Live("exit_loop")
  \/ Tp1Send("exit_loop")
  \/ Tp1Update("exit_loop")
  \/ SyncFetch("scalper")
  \/ SyncApply("scalper")
  \/ \E price \in TradePrices : Cpt(price)
  \/ CptSend("scalper")
  \/ CptPoll("scalper")
  \/ CptClose("scalper")

SpecPartial == Init /\ [][NextPartial]_vars

\* C35: between entry and close a partial-TP close order is submitted at
\* most once per position: check_partial_tp submits none for a record whose
\* TP1 order handle_tp1 has placed (tp1_triggered), and handle_tp1 submits
\* none for a record whose partial TP check_partial_tp has done
\* (partial_tp_done).
C35_OnePartialOrder ==
  [][\A w \in Workers :
       /\ (pc[w] = "cpt_send" /\ pc'[w] = "cpt_poll" /\ Holds(w))
            => ~positions[KEY].tp1_triggered
       /\ (pc[w] = "tp1_send" /\ pc'[w] = "tp1_update" /\ Holds(w))
            => ~positions[KEY].partial_tp_done]_vars

\* C36: the quantities of all exit orders submitted for a position, from all
\* workers and in any interleaving, add up to at most its size at entry.  As
\* long as neither tp1_triggered nor partial_tp_done is set the stored size
\* is the size at entry, so an order submitted while another worker is
\* between its own partial order and its update of the record stays, together
\* with that order, within the stored size.
C36_ExitQuantityBounded ==
  [][\A w \in Workers, x \in Workers :
       (/\ w # x
        /\ Submits(w)
        /\ pc[x] \in {"tp1_update", "cpt_poll"}
        /\ Holds(w) /\ Holds(x)
        /\ ~positions[KEY].tp1_triggered /\ ~positions[KEY].partial_tp_done)
         => loc[w].qty + loc[x].qty <= positions[KEY].size]_vars

\* C37: a marker does not survive a pass that sees the exchange position:
\* after a reconciliation pass in which the exchange reports the position of
\* a stored record, the record has no binance_missing_since, so a later
\* absence starts a fresh grace period.
C37_SeenAgainClearsMarker ==
  [][(SyncPass /\ loc["exit_loop"].seen > 0 /\ Present(positions))
       => positions'[KEY].binance_missing_since = 0]_vars

\* C38: a reconciliation pass whose exchange query failed marks no local
\* position as missing and removes none: it leaves the store as it was.
C38_FailedQueryTouchesNothing ==
  [][(SyncPass /\ loc["exit_loop"].fetch_failed) => positions' = positions]_vars

\* ------------------------------------------------------------ trail_active
\* a record with trailing active as the activation step writes it
\* (exit_manager.py:628-634: trail_active, stop_loss = partial_tp_price, on a
\* record handle_tp1 left with tp1_triggered), read from positions.json at
\* startup
InitTrail ==
  /\ \E size \in EntrySizes :
       /\ positions =
            [k \in Keys |->
               IF k = KEY
                 THEN [LoadedPos(None, size) EXCEPT
                         !.tp1_triggered = TRUE, !.trail_active = TRUE,
                         !.stop_loss = EntryPTP]
                 ELSE NoPos]
       /\ exAmt = size
  /\ positions_file = FileOf(positions)
  /\ ORDER_TRACKER = "NONE"
  /\ TRACKER_LOCK = "free"
  /\ orders = [w \in Workers |-> 0]
  /\ sent = [i \in Ids |-> 0]
  /\ lifecycle = [i \in Ids |-> 0]
  /\ now = 1
  /\ pc = [w \in Workers |-> "idle"]
  /\ loc = [w \in Workers |-> LocInit]
  /\ exitOwner = "none"
  /\ nextId = 2
  /\ ticks = 0
  /\ calls = [w \in Workers |-> 0]
  /\ results = [t |-> 0, f |-> 0]
  /\ peak_price = None
  /\ calc = CalcIdle

SpecTrail == InitTrail /\ [][NextTime]_vars

C40_Tp1NeedsPartialPrice ==
  [][\A price \in Prices :
       (PassAt(price) /\ pc'["exit_loop"] = "tp1_live")
         => positions[KEY].partial_tp_price # None]_vars
====
